---------------------------- MODULE Spec2Model ----------------------------
(***************************************************************************)
(* Cleaning Robot API (src/main.py): the process-wide grid (map_data,      *)
(* map_rows, map_cols), the session ledger (cleaning_history, session_id)  *)
(* and the three request handlers /set-map, /clean and /history.           *)
(*                                                                         *)
(* /clean and /history are plain "def" endpoints: the framework runs each  *)
(* call on a worker thread, so their statements interleave with those of   *)
(* other calls.  /set-map is an "async def" endpoint without a suspension  *)
(* point after the file is read: it runs on the single event-loop thread,  *)
(* so two uploads never overlap each other, but an upload does interleave  *)
(* with the worker threads.  Every handler is therefore modelled statement *)
(* by statement, one action per access to the shared state; a              *)
(* specification chooses whether handlers are served one at a time or      *)
(* interleaved.                                                            *)
(***************************************************************************)
EXTENDS Integers, Sequences, FiniteSets, TLC

\* ------------------------------------------------------------------ bounds
\* Longest uploaded .txt file, in characters.
MaxFileLen == 4
\* Largest rows/cols value of an uploaded .json map; its tiles' coordinates range
\* over 0 .. MaxDim - 1, so a map may list a tile beyond its own rows or cols.
MaxDim == 2
\* Most tiles listed in an uploaded .json map.
MaxTiles == 1
\* Start coordinates of a request range over -1 .. MaxCoord.
MaxCoord == 1
\* Most move commands in a request, and most steps in one command.
MaxActions == 2
MaxSteps == 2
\* Most /clean calls served in a behaviour of Spec / of SpecLedger / of SpecConc.
MaxRuns == 1
MaxLedgerRuns == 3
MaxConcRuns == 2

\* ------------------------------------------------------------------ inputs
Threads == {1, 2}

Chars == {"o", "x", "\n"}
Whitespace == {"\n"}

\* Sequences over S of length at most n.
SeqsUpTo(S, n) == UNION {[1..m -> S] : m \in 0..n}

\* The decoded contents of the .txt uploads.
TxtFiles == SeqsUpTo(Chars, MaxFileLen)

\* The parsed contents of the .json uploads (the value json.loads returns).
Tile == [x : 0..(MaxDim - 1), y : 0..(MaxDim - 1), walkable : BOOLEAN]
JsonFiles == [rows : 1..MaxDim, cols : 1..MaxDim, tiles : SeqsUpTo(Tile, MaxTiles)]

Directions == {"north", "south", "east", "west"}
\* What a request may carry as a direction: the recognized ones and one that is not
\* (the match is exact, so a wrong case is not recognized).
DirectionInputs == Directions \cup {"East"}
Command == [direction : DirectionInputs, steps : 0..MaxSteps]
Coords == (0 - 1)..MaxCoord
Requests ==
    [start_x : Coords, start_y : Coords, actions : SeqsUpTo(Command, MaxActions),
     premium : BOOLEAN]


\* ------------------------------------------------------------------ state
VARIABLES
    map_data,          \* dict (x, y) -> bool: a function on the keys present
    map_rows,
    map_cols,
    cleaning_history,  \* list of session records
    session_id,
    clock,             \* the system clock: every reading is later than the last
    w,                 \* w[t]: the frame of the handler running on worker thread t
    ld                 \* the frame of the /set-map handler on the event loop

vars == <<map_data, map_rows, map_cols, cleaning_history, session_id, clock, w, ld>>

\* ------------------------------------------------------------- map parsing
\* str.strip(): leading and trailing whitespace removed.
RECURSIVE LStrip(_)
LStrip(s) == IF s # <<>> /\ Head(s) \in Whitespace THEN LStrip(Tail(s)) ELSE s

RECURSIVE RStrip(_)
RStrip(s) ==
    IF s # <<>> /\ s[Len(s)] \in Whitespace THEN RStrip(SubSeq(s, 1, Len(s) - 1)) ELSE s

Strip(s) == RStrip(LStrip(s))

\* str.split("\n"): the pieces between newlines; a string without one is one piece.
RECURSIVE Split(_)
Split(s) ==
    IF \E i \in 1..Len(s) : s[i] = "\n"
    THEN LET i == CHOOSE j \in 1..Len(s) :
                      s[j] = "\n" /\ \A m \in 1..(j - 1) : s[m] # "\n"
         IN  <<SubSeq(s, 1, i - 1)>> \o Split(SubSeq(s, i + 1, Len(s)))
    ELSE <<s>>

\* The dict stores of the two nested loops of set_map_from_txt, in the order made:
\* rows top to bottom, each row left to right.
RECURSIVE RowStores(_, _, _)
RowStores(line, x, y) ==
    IF x >= Len(line) THEN <<>>
    ELSE <<[x |-> x, y |-> y, walkable |-> (line[x + 1] = "o")]>> \o RowStores(line, x + 1, y)

RECURSIVE TxtStores(_, _)
TxtStores(lines, y) ==
    IF y >= Len(lines) THEN <<>>
    ELSE RowStores(lines[y + 1], 0, y) \o TxtStores(lines, y + 1)

\* What set_map_from_txt assigns for a file: rows, cols and the stores into map_data.
ParseTxt(file_content) ==
    LET lines == Split(Strip(file_content))
    IN  [rows |-> Len(lines), cols |-> Len(lines[1]), stores |-> TxtStores(lines, 0)]

\* What set_map_from_json assigns for a parsed file.
ParseJson(data) == [rows |-> data.rows, cols |-> data.cols, stores |-> data.tiles]

\* map_data[(x, y)] = value
DictSet(d, x, y, value) == (<<x, y>> :> value) @@ d

\* DictGet with the default of a missing key taken as walkable.
DictGetDefaultTrue(d, x, y) == IF <<x, y>> \in DOMAIN d THEN d[<<x, y>>] ELSE TRUE

\* map_data.get((x, y), False)
DictGet(d, x, y) == IF <<x, y>> \in DOMAIN d THEN d[<<x, y>>] ELSE FALSE

RECURSIVE ApplyStores(_, _)
ApplyStores(d, stores) ==
    IF stores = <<>> THEN d
    ELSE ApplyStores(DictSet(d, Head(stores).x, Head(stores).y, Head(stores).walkable),
                     Tail(stores))

EmptyDict == <<>>

\* InBounds without the lower limits.
InBoundsNoLower(x, y, cols, rows) == x < cols /\ y < rows

\* InBounds with the column left untested.
InBoundsRowsOnly(x, y, cols, rows) == 0 <= x /\ 0 <= y /\ y < rows

\* 0 <= x < cols and 0 <= y < rows
InBounds(x, y, cols, rows) == 0 <= x /\ x < cols /\ 0 <= y /\ y < rows

\* ------------------------------------------------------------------ frames
\* A worker thread's frame: the arguments and locals of clean_endpoint and the
\* run_cleaning call it makes, or of get_history.  A field not in use is at its
\* initial value.
IdleFrame ==
    [pc |-> "idle", op |-> "none",
     start_x |-> 0, start_y |-> 0, actions |-> <<>>, premium |-> FALSE,
     start_time |-> 0, start_timestamp |-> 0,
     cleaned_tiles |-> {}, current_x |-> 0, current_y |-> 0, ai |-> 0, k |-> 0,
     returned |-> <<>>, session_data |-> <<>>, loaded |-> 0,
     output |-> <<>>, idx |-> 0, response |-> <<>>]

\* The /set-map frame: what remains to be assigned.
IdleLoader == [pc |-> "idle", rows |-> 0, cols |-> 0, stores |-> <<>>]

Resting(t) == w[t].pc = "idle"

\* No handler is running.
Quiet == ld.pc = "idle" /\ \A t \in Threads : Resting(t)

\* /clean calls received so far: those logged and those still before their append.
CleanPcs == {"start_bounds", "start_lookup", "move", "bounds", "lookup", "build", "append"}
Received == Len(cleaning_history) + Cardinality({t \in Threads : w[t].pc \in CleanPcs})

Init ==
    /\ map_data = EmptyDict
    /\ map_rows = 0
    /\ map_cols = 0
    /\ cleaning_history = <<>>
    /\ session_id = 1
    /\ clock = 0
    /\ w = [t \in Threads |-> IdleFrame]
    /\ ld = IdleLoader

Globals == <<map_data, map_rows, map_cols, cleaning_history, session_id>>
Grid == <<map_data, map_rows, map_cols>>
Ledger == <<cleaning_history, session_id>>

\* ------------------------------------------------------------------ /set-map
\* set_map: the file is read and decoded, the extension picks the parser, and the
\* parser's first statement runs: map_rows is assigned.
SetMapBegin(parsed) ==
    /\ ld.pc = "idle"
    /\ map_rows' = parsed.rows
    /\ ld' = [pc |-> "cols", rows |-> parsed.rows, cols |-> parsed.cols,
              stores |-> parsed.stores]
    /\ UNCHANGED <<map_data, map_cols, Ledger, clock, w>>

SetMapTxt(file_content) == SetMapBegin(ParseTxt(file_content))

SetMapJson(data) == SetMapBegin(ParseJson(data))

\* map_cols = ...
SetMapCols ==
    /\ ld.pc = "cols"
    /\ map_cols' = ld.cols
    /\ ld' = [ld EXCEPT !.pc = "reset"]
    /\ UNCHANGED <<map_data, map_rows, Ledger, clock, w>>

\* SetMapReset emptying the ledger together with the tile table.
SetMapResetAll ==
    /\ ld.pc = "reset"
    /\ map_data' = EmptyDict
    /\ cleaning_history' = <<>>
    /\ ld' = [ld EXCEPT !.pc = "fill"]
    /\ UNCHANGED <<map_rows, map_cols, session_id, clock, w>>

\* map_data = {}
SetMapReset ==
    /\ ld.pc = "reset"
    /\ map_data' = EmptyDict
    /\ ld' = [ld EXCEPT !.pc = "fill"]
    /\ UNCHANGED <<map_rows, map_cols, Ledger, clock, w>>

\* One pass of the filling loop: map_data[(x, y)] = ...
SetMapStore ==
    /\ ld.pc = "fill"
    /\ ld.stores # <<>>
    /\ map_data' = DictSet(map_data, Head(ld.stores).x, Head(ld.stores).y,
                           Head(ld.stores).walkable)
    /\ ld' = [ld EXCEPT !.stores = Tail(ld.stores)]
    /\ UNCHANGED <<map_rows, map_cols, Ledger, clock, w>>

\* The loop is exhausted; set_map answers with a summary and its frame is gone.
SetMapReturn ==
    /\ ld.pc = "fill"
    /\ ld.stores = <<>>
    /\ ld' = IdleLoader
    /\ UNCHANGED <<Globals, clock, w>>

\* An upload whose name ends in neither .txt nor .json is rejected with 400: nothing
\* is assigned.
SetMapUnsupported ==
    /\ ld.pc = "idle"
    /\ ld' = IdleLoader
    /\ UNCHANGED <<Globals, clock, w>>

\* ------------------------------------------------------------------ /clean
\* Thread t's frame becomes f.
Frame(t, f) == w' = [w EXCEPT ![t] = f]

\* datetime.isoformat(): the instant as text.
IsoFormat(instant) == "T" \o ToString(instant)

\* clean_endpoint is entered with the request body; the start instant is read off
\* the clock (datetime.utcnow(), time.time()) and run_cleaning is called.
CleanBegin(t, req) ==
    /\ Resting(t)
    /\ clock' = clock + 1
    /\ Frame(t, [IdleFrame EXCEPT
                   !.pc = "start_bounds", !.op = "clean",
                   !.start_x = req.start_x, !.start_y = req.start_y,
                   !.actions = req.actions, !.premium = req.premium,
                   !.start_time = clock, !.start_timestamp = clock])
    /\ UNCHANGED <<Globals, ld>>

\* Return with the tiles cleaned so far discarded when the run fails.
ReturnDiscarding(f, tiles, state) ==
    [f EXCEPT !.pc = "build",
              !.returned = <<IF state = "error" THEN {} ELSE tiles, state>>,
              !.cleaned_tiles = {}, !.current_x = 0, !.current_y = 0, !.ai = 0, !.k = 0]

\* run_cleaning returns (tiles, state) to clean_endpoint: its locals are gone.
Return(f, tiles, state) ==
    [f EXCEPT !.pc = "build", !.returned = <<tiles, state>>,
              !.cleaned_tiles = {}, !.current_x = 0, !.current_y = 0, !.ai = 0, !.k = 0]

\* if not (0 <= start_x < map_cols and 0 <= start_y < map_rows): return [], "error"
StartBounds(t) ==
    /\ w[t].pc = "start_bounds"
    /\ Frame(t, IF InBounds(w[t].start_x, w[t].start_y, map_cols, map_rows)
                THEN [w[t] EXCEPT !.pc = "start_lookup"]
                ELSE Return(w[t], {}, "error"))
    /\ UNCHANGED <<Globals, clock, ld>>

\* if not map_data.get((start_x, start_y), False): return [], "error"
\* otherwise the start tile is cleaned and becomes the current position.
StartLookup(t) ==
    /\ w[t].pc = "start_lookup"
    /\ Frame(t, IF DictGet(map_data, w[t].start_x, w[t].start_y)
                THEN [w[t] EXCEPT !.pc = "move",
                                  !.cleaned_tiles = {<<w[t].start_x, w[t].start_y>>},
                                  !.current_x = w[t].start_x, !.current_y = w[t].start_y,
                                  !.ai = 1, !.k = 0]
                ELSE Return(w[t], {}, "error"))
    /\ UNCHANGED <<Globals, clock, ld>>

\* NextAction with the outer loop left after the first action.
NextActionFirstOnly(actions, ai, k) ==
    IF ai = 1 /\ ai <= Len(actions) /\ k < actions[ai].steps THEN [ai |-> ai, k |-> k]
    ELSE [ai |-> Len(actions) + 1, k |-> 0]

\* The two for loops: the index of the next action that still has a step to make
\* (an action whose range(steps) is exhausted or empty is left), or past the list.
RECURSIVE NextAction(_, _, _)
NextAction(actions, ai, k) ==
    IF ai > Len(actions) THEN [ai |-> ai, k |-> 0]
    ELSE IF k < actions[ai].steps THEN [ai |-> ai, k |-> k]
    ELSE NextAction(actions, ai + 1, 0)

\* The if/elif chain on direction: the position after the move.
Moved(direction, x, y) ==
    CASE direction = "north" -> <<x, y - 1>>
      [] direction = "south" -> <<x, y + 1>>
      [] direction = "east"  -> <<x + 1, y>>
      [] direction = "west"  -> <<x - 1, y>>

Recognized(direction) == direction \in Directions

\* The next pass of the inner loop up to the bounds test: the loops advance, the
\* direction is matched and the position moved; an unmatched direction returns the
\* tiles cleaned so far with "error"; exhausted loops return them with "completed".
Move(t) ==
    /\ w[t].pc = "move"
    /\ LET f == w[t]
           at == NextAction(f.actions, f.ai, f.k)
       IN  Frame(t,
             IF at.ai > Len(f.actions) THEN Return(f, f.cleaned_tiles, "completed")
             ELSE IF ~Recognized(f.actions[at.ai].direction)
                  THEN Return(f, f.cleaned_tiles, "error")
             ELSE LET to == Moved(f.actions[at.ai].direction, f.current_x, f.current_y)
                  IN  [f EXCEPT !.pc = "bounds", !.ai = at.ai, !.k = at.k,
                                !.current_x = to[1], !.current_y = to[2]])
    /\ UNCHANGED <<Globals, clock, ld>>

\* if not (0 <= current_x < map_cols and 0 <= current_y < map_rows): return ..., "error"
Bounds(t) ==
    /\ w[t].pc = "bounds"
    /\ Frame(t, IF InBounds(w[t].current_x, w[t].current_y, map_cols, map_rows)
                THEN [w[t] EXCEPT !.pc = "lookup"]
                ELSE Return(w[t], w[t].cleaned_tiles, "error"))
    /\ UNCHANGED <<Globals, clock, ld>>

\* Cleaned with the tile added only when the flag is off.
CleanedBasicOnly(cleaned_tiles, premium, x, y) ==
    IF ~premium THEN cleaned_tiles \cup {<<x, y>>} ELSE cleaned_tiles

\* if not premium or (premium and (current_x, current_y) not in cleaned_tiles):
\*     cleaned_tiles.add((current_x, current_y))
Cleaned(cleaned_tiles, premium, x, y) ==
    IF ~premium \/ (premium /\ <<x, y>> \notin cleaned_tiles)
    THEN cleaned_tiles \cup {<<x, y>>}
    ELSE cleaned_tiles

\* Lookup marking the tile it cleans as no longer walkable.
LookupConsuming(t) ==
    /\ w[t].pc = "lookup"
    /\ Frame(t, IF DictGet(map_data, w[t].current_x, w[t].current_y)
                THEN [w[t] EXCEPT !.pc = "move", !.k = @ + 1,
                                  !.cleaned_tiles =
                                      Cleaned(@, w[t].premium, w[t].current_x, w[t].current_y)]
                ELSE Return(w[t], w[t].cleaned_tiles, "error"))
    /\ map_data' = IF DictGet(map_data, w[t].current_x, w[t].current_y)
                   THEN DictSet(map_data, w[t].current_x, w[t].current_y, FALSE)
                   ELSE map_data
    /\ UNCHANGED <<map_rows, map_cols, Ledger, clock, ld>>

\* Lookup with the inner loop's count left where it was.
LookupNoAdvance(t) ==
    /\ w[t].pc = "lookup"
    /\ Frame(t, IF DictGet(map_data, w[t].current_x, w[t].current_y)
                THEN [w[t] EXCEPT !.pc = "move",
                                  !.cleaned_tiles =
                                      Cleaned(@, w[t].premium, w[t].current_x, w[t].current_y)]
                ELSE Return(w[t], w[t].cleaned_tiles, "error"))
    /\ UNCHANGED <<Globals, clock, ld>>

\* if not map_data.get((current_x, current_y), False): return ..., "error"
\* otherwise the tile is cleaned and the inner loop goes round.
Lookup(t) ==
    /\ w[t].pc = "lookup"
    /\ Frame(t, IF DictGet(map_data, w[t].current_x, w[t].current_y)
                THEN [w[t] EXCEPT !.pc = "move", !.k = @ + 1,
                                  !.cleaned_tiles =
                                      Cleaned(@, w[t].premium, w[t].current_x, w[t].current_y)]
                ELSE Return(w[t], w[t].cleaned_tiles, "error"))
    /\ UNCHANGED <<Globals, clock, ld>>

\* SessionData with the two counts in each other's place.
SessionDataSwapped(f, id, end_time) ==
    [id |-> id,
     start_time |-> IsoFormat(f.start_time),
     end_time |-> IsoFormat(end_time),
     final_state |-> f.returned[2],
     actions_count |-> Cardinality(f.returned[1]),
     tiles_cleaned |-> Len(f.actions),
     duration_seconds |-> end_time - f.start_timestamp]

\* The session record built from the run's result; the end instant is read off the
\* clock and the id off session_id.
SessionData(f, id, end_time) ==
    [id |-> id,
     start_time |-> IsoFormat(f.start_time),
     end_time |-> IsoFormat(end_time),
     final_state |-> f.returned[2],
     actions_count |-> Len(f.actions),
     tiles_cleaned |-> Cardinality(f.returned[1]),
     duration_seconds |-> end_time - f.start_timestamp]

\* end_time, duration_seconds and session_data = {"id": session_id, ...}
Build(t) ==
    /\ w[t].pc = "build"
    /\ clock' = clock + 1
    /\ Frame(t, [w[t] EXCEPT !.pc = "append",
                             !.session_data = SessionData(w[t], session_id, clock)])
    /\ UNCHANGED <<Globals, ld>>

\* AppendSession with the record put at the head of the list.
AppendSessionFront(t) ==
    /\ w[t].pc = "append"
    /\ cleaning_history' = <<w[t].session_data>> \o cleaning_history
    /\ Frame(t, [w[t] EXCEPT !.pc = "incr_load"])
    /\ UNCHANGED <<Grid, session_id, clock, ld>>

\* AppendSession with a failed run left out of the history.
AppendSessionIfCompleted(t) ==
    /\ w[t].pc = "append"
    /\ cleaning_history' = IF w[t].returned[2] = "completed"
                           THEN Append(cleaning_history, w[t].session_data)
                           ELSE cleaning_history
    /\ Frame(t, [w[t] EXCEPT !.pc = "incr_load"])
    /\ UNCHANGED <<Grid, session_id, clock, ld>>

\* cleaning_history.append(session_data)
AppendSession(t) ==
    /\ w[t].pc = "append"
    /\ cleaning_history' = Append(cleaning_history, w[t].session_data)
    /\ Frame(t, [w[t] EXCEPT !.pc = "incr_load"])
    /\ UNCHANGED <<Grid, session_id, clock, ld>>

\* session_id += 1 loads the global, adds one and stores the sum: the load ...
IncrLoad(t) ==
    /\ w[t].pc = "incr_load"
    /\ Frame(t, [w[t] EXCEPT !.pc = "incr_store", !.loaded = session_id])
    /\ UNCHANGED <<Globals, clock, ld>>

\* IncrStore with the sum lost: the loaded value is stored back.
IncrStoreSame(t) ==
    /\ w[t].pc = "incr_store"
    /\ session_id' = w[t].loaded
    /\ Frame(t, [w[t] EXCEPT !.pc = "respond", !.loaded = 0])
    /\ UNCHANGED <<Grid, cleaning_history, clock, ld>>

\* ... and the store.
IncrStore(t) ==
    /\ w[t].pc = "incr_store"
    /\ session_id' = w[t].loaded + 1
    /\ Frame(t, [w[t] EXCEPT !.pc = "respond", !.loaded = 0])
    /\ UNCHANGED <<Grid, cleaning_history, clock, ld>>

\* The response body; HTTPException(400) when final_state is "error", else 200.
Respond(t) ==
    /\ w[t].pc = "respond"
    /\ Frame(t, [w[t] EXCEPT
                   !.pc = "done",
                   !.response =
                       [status_code |-> IF w[t].returned[2] = "error" THEN 400 ELSE 200,
                        cleaned_tiles |-> w[t].returned[1],
                        final_state |-> w[t].returned[2]]])
    /\ UNCHANGED <<Globals, clock, ld>>

\* ------------------------------------------------------------------ /history
\* csv.writer(output).writerow(row): the fields as text (a string as it is, a number
\* as str() gives it), joined by the delimiter, the line ended by the writer's line
\* terminator.  csv.writer is created without arguments: the dialect is "excel",
\* whose terminator is "\r\n".
LineTerminator == "\r\n"

\* str() of a number.
Str(number) == ToString(number)

WriteRow(texts) == [fields |-> texts, end |-> LineTerminator]

HeaderRow ==
    <<"id", "start_time", "end_time", "final_state", "actions_count", "tiles_cleaned",
      "duration_seconds">>

\* SessionRow with the two instants in each other's place.
SessionRowEndFirst(session) ==
    <<Str(session.id), session.end_time, session.start_time, session.final_state,
      Str(session.actions_count), Str(session.tiles_cleaned),
      Str(session.duration_seconds)>>

SessionRow(session) ==
    <<Str(session.id), session.start_time, session.end_time, session.final_state,
      Str(session.actions_count), Str(session.tiles_cleaned),
      Str(session.duration_seconds)>>

\* get_history is entered: the output buffer is created and the header row written.
HistoryBegin(t) ==
    /\ Resting(t)
    /\ Frame(t, [IdleFrame EXCEPT !.pc = "rows", !.op = "history",
                                  !.output = <<WriteRow(HeaderRow)>>, !.idx = 1])
    /\ UNCHANGED <<Globals, clock, ld>>

\* One pass of "for session in cleaning_history": the next element is written.
HistoryRow(t) ==
    /\ w[t].pc = "rows"
    /\ w[t].idx <= Len(cleaning_history)
    /\ Frame(t, [w[t] EXCEPT
                   !.output = Append(@, WriteRow(SessionRow(cleaning_history[w[t].idx]))),
                   !.idx = @ + 1])
    /\ UNCHANGED <<Globals, clock, ld>>

\* The list is exhausted: the buffer is rewound and streamed as text/csv.
HistoryReturn(t) ==
    /\ w[t].pc = "rows"
    /\ w[t].idx > Len(cleaning_history)
    /\ Frame(t, [w[t] EXCEPT !.pc = "done", !.output = <<>>, !.idx = 0,
                             !.response = [status_code |-> 200, media_type |-> "text/csv",
                                           body |-> w[t].output]])
    /\ UNCHANGED <<Globals, clock, ld>>

\* The response has been sent: the handler's frame is discarded and the thread is
\* free for the next request.
Release(t) ==
    /\ w[t].pc = "done"
    /\ Frame(t, IdleFrame)
    /\ UNCHANGED <<Globals, clock, ld>>

\* ------------------------------------------------------------ specifications
\* A step of a handler already entered.
Serve(t) ==
    \/ StartBounds(t)
    \/ StartLookup(t)
    \/ Move(t)
    \/ Bounds(t)
    \/ Lookup(t)
    \/ Build(t)
    \/ AppendSession(t)
    \/ IncrLoad(t)
    \/ IncrStore(t)
    \/ Respond(t)
    \/ HistoryRow(t)
    \/ HistoryReturn(t)
    \/ Release(t)

Load ==
    \/ SetMapCols
    \/ SetMapReset
    \/ SetMapStore
    \/ SetMapReturn

\* Requests served one at a time: a handler is entered only when none is running.
Next ==
    \/ Quiet /\ Received < MaxRuns /\ \E req \in Requests : CleanBegin(1, req)
    \/ Quiet /\ HistoryBegin(1)
    \/ Quiet /\ \E file_content \in TxtFiles : SetMapTxt(file_content)
    \/ Quiet /\ \E data \in JsonFiles : SetMapJson(data)
    \/ Quiet /\ SetMapUnsupported
    \/ \E t \in Threads : Serve(t)
    \/ Load

Spec == Init /\ [][Next]_vars

\* The ledger under a small set of requests, so that several runs fit: the start is
\* (0, 0) and every command makes one step, east or in an unrecognized direction.
LedgerRequests ==
    [start_x : {0}, start_y : {0},
     actions : SeqsUpTo([direction : {"east", "East"}, steps : {1}], MaxActions),
     premium : {FALSE}]

\* ... and of maps: the .txt files of at most two characters.
LedgerTxtFiles == SeqsUpTo(Chars, 2)

NextLedger ==
    \/ Quiet /\ Received < MaxLedgerRuns /\ \E req \in LedgerRequests : CleanBegin(1, req)
    \/ Quiet /\ HistoryBegin(1)
    \/ Quiet /\ \E file_content \in LedgerTxtFiles : SetMapTxt(file_content)
    \/ \E t \in Threads : Serve(t)
    \/ Load

SpecLedger == Init /\ [][NextLedger]_vars

\* Handlers interleaved as the threads run them: a request is taken by any free
\* worker thread whatever the others are doing, and an upload by the event loop
\* whenever it is free.
ConcRequests ==
    [start_x : {0}, start_y : {0},
     actions : {<<>>, <<[direction |-> "east", steps |-> 1]>>},
     premium : {FALSE}]

ConcTxtFiles == {<<"o", "o">>, <<"x", "o">>}

NextConc ==
    \/ Received < MaxConcRuns /\ \E t \in Threads, req \in ConcRequests : CleanBegin(t, req)
    \/ \E t \in Threads : HistoryBegin(t)
    \/ \E file_content \in ConcTxtFiles : SetMapTxt(file_content)
    \/ \E t \in Threads : Serve(t)
    \/ Load

SpecConc == Init /\ [][NextConc]_vars

\* Two runs one after the other on one grid: maps are uploaded before the first
\* request, the first /clean is served to its answer, and a second /clean with the
\* same start and commands, under either value of the flag, is served after it.
TwiceRequests ==
    [start_x : 0..MaxCoord, start_y : 0..MaxCoord,
     actions : SeqsUpTo([direction : {"east", "west", "south", "East"},
                         steps : 0..MaxSteps], MaxActions),
     premium : BOOLEAN]

TwiceTxtFiles == SeqsUpTo(Chars, 3)

\* The statements of clean_endpoint and of the run_cleaning it calls.
RunSteps(t) ==
    \/ StartBounds(t)
    \/ StartLookup(t)
    \/ Move(t)
    \/ Bounds(t)
    \/ Lookup(t)
    \/ Build(t)
    \/ AppendSession(t)
    \/ IncrLoad(t)
    \/ IncrStore(t)
    \/ Respond(t)

NextTwice ==
    \/ Quiet /\ \E file_content \in TwiceTxtFiles : SetMapTxt(file_content)
    \/ Quiet /\ \E req \in TwiceRequests : CleanBegin(1, req)
    \/ /\ w[1].pc = "done" /\ Resting(2)
       /\ \E premium \in BOOLEAN :
            CleanBegin(2, [start_x |-> w[1].start_x, start_y |-> w[1].start_y,
                           actions |-> w[1].actions, premium |-> premium])
    \/ \E t \in Threads : RunSteps(t)
    \/ Load

SpecTwice == Init /\ [][NextTwice]_vars

\* ---------------------------------------------------------------- reference
\* The run as the specification words it, independent of the handler's loops: the
\* commands expanded into unit moves, the position after n of them by counting, and
\* the first unit move that fails.
RECURSIVE Units(_)
Units(actions) ==
    IF actions = <<>> THEN <<>>
    ELSE [i \in 1..Head(actions).steps |-> Head(actions).direction] \o Units(Tail(actions))

\* Unit moves in the first n commands.
RECURSIVE StepsIn(_, _)
StepsIn(actions, n) == IF n = 0 THEN 0 ELSE StepsIn(actions, n - 1) + actions[n].steps

Count(units, n, direction) == Cardinality({i \in 1..n : units[i] = direction})

PosAfter(sx, sy, units, n) ==
    <<sx + Count(units, n, "east") - Count(units, n, "west"),
      sy + Count(units, n, "south") - Count(units, n, "north")>>

CurrentGrid == [data |-> map_data, rows |-> map_rows, cols |-> map_cols]

\* The tile is inside the grid's dimensions and marked walkable.
OnGrid(g, p) ==
    /\ 0 <= p[1] /\ p[1] < g.cols /\ 0 <= p[2] /\ p[2] < g.rows
    /\ p \in DOMAIN g.data /\ g.data[p]

UnitOk(g, sx, sy, units, n) ==
    units[n] \in {"north", "south", "east", "west"} /\ OnGrid(g, PosAfter(sx, sy, units, n))

\* The index of the first failing unit move; one past the last when none fails.
Halt(g, sx, sy, units) ==
    CHOOSE n \in 1..(Len(units) + 1) :
        /\ n = Len(units) + 1 \/ ~UnitOk(g, sx, sy, units, n)
        /\ \A m \in 1..(n - 1) : UnitOk(g, sx, sy, units, m)

Visited(sx, sy, units, n) == {<<sx, sy>>} \cup {PosAfter(sx, sy, units, m) : m \in 1..n}

\* What a run against grid g returns.
Expected(g, sx, sy, actions) ==
    LET units == Units(actions)
        h == Halt(g, sx, sy, units)
    IN  IF ~OnGrid(g, <<sx, sy>>) THEN <<{}, "error">>
        ELSE <<Visited(sx, sy, units, h - 1),
               IF h = Len(units) + 1 THEN "completed" ELSE "error">>

Cleaning(t) == w[t].op = "clean"
ValidStart(t) == OnGrid(CurrentGrid, <<w[t].start_x, w[t].start_y>>)
UnitsOf(t) == Units(w[t].actions)
HaltOf(t) == Halt(CurrentGrid, w[t].start_x, w[t].start_y, UnitsOf(t))
\* Unit moves the run has completed.
UnitsDone(t) == StepsIn(w[t].actions, w[t].ai - 1) + w[t].k
RunningPcs == {"move", "bounds", "lookup"}
ReturnedPcs == {"build", "append", "incr_load", "incr_store", "respond", "done"}

\* ------------------------------------------------------------------- claims
\* C1: a run whose start position is outside the grid or on a non-walkable tile
\* returns the empty tile collection with status error, whatever the commands and
\* the premium flag, and never enters the command loops.
C1_InvalidStartRejected ==
    \A t \in Threads :
        (Cleaning(t) /\ ~ValidStart(t)) =>
            /\ w[t].pc \notin RunningPcs
            /\ w[t].pc \in ReturnedPcs => w[t].returned = <<{}, "error">>
            /\ w[t].pc = "done" =>
                  w[t].response.status_code = 400 /\ w[t].response.cleaned_tiles = {}

\* A run with commands to make and the premium flag set has returned from a start
\* that is inside the grid on a non-walkable tile.
C1_Witness ==
    \E t \in Threads :
        /\ Cleaning(t) /\ w[t].pc = "done" /\ ~ValidStart(t)
        /\ InBounds(w[t].start_x, w[t].start_y, map_cols, map_rows)
        /\ w[t].premium /\ Len(UnitsOf(t)) > 0

\* C2: from a valid start the run returns completed exactly when no unit move of any
\* command fails (a zero-command run completes); the run never goes past the first
\* failing unit move: while it is in the loops every completed unit move precedes
\* it, and the unit move in hand is at most that one.
C2_CompletedIffNoUnitMoveFails ==
    \A t \in Threads :
        (Cleaning(t) /\ ValidStart(t)) =>
            /\ w[t].pc \in ReturnedPcs =>
                  /\ w[t].returned[2] \in {"completed", "error"}
                  /\ w[t].returned[2] = "completed" <=> HaltOf(t) = Len(UnitsOf(t)) + 1
            /\ w[t].pc = "move" => UnitsDone(t) < HaltOf(t)
            /\ w[t].pc \in {"bounds", "lookup"} =>
                  /\ UnitsDone(t) + 1 <= HaltOf(t)
                  /\ UnitsOf(t)[UnitsDone(t) + 1] \in Directions

\* A run has returned error after at least one good unit move, with unit moves of a
\* later command still to make.
C2_Witness ==
    \E t \in Threads :
        /\ Cleaning(t) /\ w[t].pc = "done" /\ ValidStart(t)
        /\ w[t].returned[2] = "error"
        /\ HaltOf(t) > 1
        /\ HaltOf(t) <= StepsIn(w[t].actions, 1)
        /\ Len(UnitsOf(t)) > StepsIn(w[t].actions, 1)

\* C3: from a valid start the returned tiles are exactly the start tile and the
\* positions of the unit moves before the first failing one: on error the progress
\* made is kept, the failing position is not in the set, and nothing unvisited is.
\* The same holds of the set being built while the run is in the loops.
C3_CleanedTilesAreVisited ==
    \A t \in Threads :
        (Cleaning(t) /\ ValidStart(t)) =>
            /\ w[t].pc \in ReturnedPcs =>
                  w[t].returned[1] =
                      Visited(w[t].start_x, w[t].start_y, UnitsOf(t), HaltOf(t) - 1)
            /\ w[t].pc \in RunningPcs =>
                  w[t].cleaned_tiles =
                      Visited(w[t].start_x, w[t].start_y, UnitsOf(t), UnitsDone(t))
            /\ w[t].pc \in {"bounds", "lookup"} =>
                  <<w[t].current_x, w[t].current_y>> =
                      PosAfter(w[t].start_x, w[t].start_y, UnitsOf(t), UnitsDone(t) + 1)

\* A run has returned error with more than the start tile cleaned, its failing unit
\* move being a recognized direction onto a position that is not in the set.
C3_Witness ==
    \E t \in Threads :
        /\ Cleaning(t) /\ w[t].pc = "done" /\ ValidStart(t)
        /\ w[t].returned[2] = "error"
        /\ Cardinality(w[t].returned[1]) >= 2
        /\ UnitsOf(t)[HaltOf(t)] \in Directions
        /\ PosAfter(w[t].start_x, w[t].start_y, UnitsOf(t), HaltOf(t)) \notin w[t].returned[1]

\* The commands before command i make all their unit moves without failing.
ReachesCommand(t, i) == HaltOf(t) > StepsIn(w[t].actions, i - 1)

\* C4: from a valid start, a run that reaches a command whose direction is not one
\* of the four recognized ones returns error with the tiles cleaned so far, for
\* every steps count of that command, 0 included.
C4_UnrecognizedDirectionIsError ==
    \A t \in Threads :
        (Cleaning(t) /\ ValidStart(t) /\ w[t].pc \in ReturnedPcs) =>
            \A i \in 1..Len(w[t].actions) :
                (w[t].actions[i].direction \notin Directions /\ ReachesCommand(t, i)) =>
                    w[t].returned[2] = "error"

\* C5: under any interleaving of concurrent /clean calls no two records of the
\* ledger carry the same id, and the ids increase strictly in ledger order.
C5_IdsUniqueAndIncreasing ==
    \A i, j \in 1..Len(cleaning_history) :
        i < j => cleaning_history[i].id < cleaning_history[j].id

\* The grid a completed upload of a parsed file leaves.
GridOf(parsed) ==
    [data |-> ApplyStores(EmptyDict, parsed.stores), rows |-> parsed.rows,
     cols |-> parsed.cols]

\* The grids that are ever loaded under SpecConc: the one of the fresh process and
\* the ones of its uploads.
ConcGrids ==
    {[data |-> EmptyDict, rows |-> 0, cols |-> 0]}
        \cup {GridOf(ParseTxt(file_content)) : file_content \in ConcTxtFiles}

\* C6: a run that overlaps a map upload makes all its bounds and walkability checks
\* against one single loaded grid, the one before the upload or the new one: what it
\* returns is what a run against one of the loaded grids returns.
C6_RunSeesOneLoadedGrid ==
    \A t \in Threads :
        (Cleaning(t) /\ w[t].pc \in ReturnedPcs) =>
            \E g \in ConcGrids :
                w[t].returned = Expected(g, w[t].start_x, w[t].start_y, w[t].actions)

\* C7: with the /clean calls served one after the other, uploads and exports between
\* them, the ledger's ids are 1, 2, ..., N in ledger order.
C7_LedgerIdsAreOneToN ==
    /\ \A i \in 1..Len(cleaning_history) : cleaning_history[i].id = i
    /\ Quiet => session_id = Len(cleaning_history) + 1

\* Three runs are logged, a failed one, then a completed one, then a failed one.
C7_Witness ==
    /\ Quiet
    /\ Len(cleaning_history) = 3
    /\ cleaning_history[1].final_state = "error"
    /\ cleaning_history[2].final_state = "completed"
    /\ cleaning_history[3].final_state = "error"

RecordFields ==
    {"id", "start_time", "end_time", "final_state", "actions_count", "tiles_cleaned",
     "duration_seconds"}

\* The ledger's records of the /clean call thread t is serving: the call is known by
\* its start instant, which no other call shares.
RecordsOf(t) ==
    {i \in 1..Len(cleaning_history) :
        cleaning_history[i].start_time = IsoFormat(w[t].start_time)}

\* C8: every /clean call appends exactly one record, whether the run completed or
\* failed (an invalid start included): none before its append, one from then on,
\* with the seven fields and final_state the run's status; the record is in the
\* ledger before the response, the 400 of a failed run included, is made.
C8_OneRecordPerClean ==
    \A t \in Threads :
        Cleaning(t) =>
            /\ w[t].pc \in CleanPcs => RecordsOf(t) = {}
            /\ w[t].pc \in {"incr_load", "incr_store", "respond", "done"} =>
                  /\ Cardinality(RecordsOf(t)) = 1
                  /\ \A i \in RecordsOf(t) :
                        /\ i = Len(cleaning_history)
                        /\ DOMAIN cleaning_history[i] = RecordFields
                        /\ cleaning_history[i].final_state = w[t].returned[2]
            /\ w[t].pc = "done" =>
                  w[t].response.status_code = 400 <=> w[t].returned[2] = "error"

\* A call with an invalid start has been answered with 400 after an earlier call
\* completed.
C8_Witness ==
    \E t \in Threads :
        /\ Cleaning(t) /\ w[t].pc = "done" /\ ~ValidStart(t)
        /\ w[t].response.status_code = 400
        /\ Len(cleaning_history) = 2
        /\ cleaning_history[1].final_state = "completed"

\* C9: the record appended for a run has final_state the status the run returned,
\* actions_count the number of commands submitted and tiles_cleaned the number of
\* distinct tiles returned.
C9_RecordSummarizesRun ==
    \A t \in Threads :
        (Cleaning(t) /\ w[t].pc \in {"incr_load", "incr_store", "respond", "done"}) =>
            LET record == cleaning_history[Len(cleaning_history)]
            IN  /\ record.final_state = w[t].returned[2]
                /\ record.actions_count = Len(w[t].actions)
                /\ record.tiles_cleaned = Cardinality(w[t].returned[1])

\* A run of two commands and four unit moves that halted at its second unit move is
\* logged: commands submitted, commands gone through, unit moves and tiles all
\* differ.
C9_Witness ==
    \E t \in Threads :
        /\ Cleaning(t) /\ w[t].pc = "done" /\ ValidStart(t)
        /\ Len(w[t].actions) = 2 /\ Len(UnitsOf(t)) = 4 /\ HaltOf(t) = 2
        /\ cleaning_history[Len(cleaning_history)].actions_count = 2
        /\ cleaning_history[Len(cleaning_history)].tiles_cleaned = 2

\* C10: an export is the header row followed by one row per record of the ledger, in
\* ledger order, each row the record's seven fields as text in the fixed order.
C10_ExportListsLedger ==
    \A t \in Threads :
        (w[t].op = "history" /\ w[t].pc = "done") =>
            LET body == w[t].response.body
            IN  /\ Len(body) = Len(cleaning_history) + 1
                /\ body[1].fields =
                      <<"id", "start_time", "end_time", "final_state", "actions_count",
                        "tiles_cleaned", "duration_seconds">>
                /\ \A i \in 1..Len(cleaning_history) :
                      LET record == cleaning_history[i]
                      IN  body[i + 1].fields =
                              <<ToString(record.id), record.start_time, record.end_time,
                                record.final_state, ToString(record.actions_count),
                                ToString(record.tiles_cleaned),
                                ToString(record.duration_seconds)>>

\* An export of a ledger of three records, the first failed and the second
\* completed, has been made.
C10_Witness ==
    \E t \in Threads :
        /\ w[t].op = "history" /\ w[t].pc = "done"
        /\ Len(cleaning_history) = 3
        /\ cleaning_history[1].final_state = "error"
        /\ cleaning_history[2].final_state = "completed"

\* C11: an export made when no record has ever been appended signals a distinct
\* "no history" condition (not found) to the caller and returns no dump.
C11_EmptyExportSignalsNoHistory ==
    \A t \in Threads :
        (w[t].op = "history" /\ w[t].pc = "done" /\ cleaning_history = <<>>) =>
            w[t].response.status_code = 404

\* s is a prefix of r.
IsPrefix(s, r) == Len(s) <= Len(r) /\ SubSeq(r, 1, Len(s)) = s

\* C12: the ledger is append-only: whatever step is taken, by an upload, a run or an
\* export, the ledger before it is a prefix of the ledger after it, so the ledger at
\* any earlier point is a prefix of the ledger at every later point.
C12_LedgerAppendOnly == [][IsPrefix(cleaning_history, cleaning_history')]_vars

\* Three runs are logged and an export of them has been made under a loaded map.
C12_Witness ==
    /\ Len(cleaning_history) = 3
    /\ map_rows > 0 /\ map_cols > 0
    /\ \E t \in Threads : w[t].op = "history" /\ w[t].pc = "done"
    /\ cleaning_history[1].final_state = "completed"

\* C15: every line of an export, the header line and each data row, ends with a
\* single "\n" that no carriage return precedes.
C15_LinesEndWithNewline ==
    \A t \in Threads :
        (w[t].op = "history" /\ w[t].pc = "done") =>
            \A i \in 1..Len(w[t].response.body) : w[t].response.body[i].end = "\n"

\* C16: during a run every walkability lookup is made for a coordinate pair that
\* has passed the bounds check: when the run is about to look the start up, and when
\* it is about to look a moved-to position up, that position is inside
\* 0 <= x < map_cols, 0 <= y < map_rows.
C16_LookupOnlyInBounds ==
    \A t \in Threads :
        Cleaning(t) =>
            /\ w[t].pc = "start_lookup" =>
                  /\ 0 <= w[t].start_x /\ w[t].start_x < map_cols
                  /\ 0 <= w[t].start_y /\ w[t].start_y < map_rows
            /\ w[t].pc = "lookup" =>
                  /\ 0 <= w[t].current_x /\ w[t].current_x < map_cols
                  /\ 0 <= w[t].current_y /\ w[t].current_y < map_rows

\* A run is about to look up a moved-to position that is inside the dimensions and
\* has no entry in the tile table, while the table holds a key outside them.
C16_Witness ==
    \E t \in Threads :
        /\ Cleaning(t) /\ w[t].pc = "lookup"
        /\ <<w[t].current_x, w[t].current_y>> \notin DOMAIN map_data
        /\ <<w[t].current_x, w[t].current_y>> # <<w[t].start_x, w[t].start_y>>

\* The positions of a run before it returns, and how far each is from the return at
\* most: three steps for every unit move still to make, and the steps to the next
\* lookup.
RunPcs == {"start_bounds", "start_lookup"} \cup RunningPcs

Rank(f) ==
    LET total == Len(Units(f.actions))
        done == StepsIn(f.actions, f.ai - 1) + f.k
    IN  CASE f.pc = "start_bounds" -> 3 * total + 4
          [] f.pc = "start_lookup" -> 3 * total + 3
          [] f.pc = "move" -> 3 * (total - done) + 2
          [] f.pc = "bounds" -> 3 * (total - done) + 1
          [] f.pc = "lookup" -> 3 * (total - done)

\* C17: every run terminates within its total number of unit steps: a run that has
\* not returned can always take its next step, every step it takes either returns
\* (completed or error) or brings it nearer to the return by a measure bounded by
\* the unit steps still to make, and it never goes back to an earlier command.
C17_RunTerminates ==
    /\ [](\A t \in Threads : w[t].pc \in RunPcs => ENABLED Serve(t))
    /\ [][\A t \in Threads :
            (w[t].pc \in RunPcs /\ w'[t] # w[t]) =>
                \/ /\ w'[t].pc = "build"
                   /\ w'[t].returned[2] \in {"completed", "error"}
                \/ /\ w'[t].pc \in RunPcs
                   /\ Rank(w'[t]) < Rank(w[t])
                   /\ Rank(w'[t]) >= 0
                   /\ w'[t].ai >= w[t].ai]_vars

\* A run of two commands has completed after four unit moves.
C17_Witness ==
    \E t \in Threads :
        /\ Cleaning(t) /\ w[t].pc = "done"
        /\ w[t].returned[2] = "completed"
        /\ Len(w[t].actions) = 2 /\ Len(UnitsOf(t)) = 4

\* C18: after any map load every coordinate stored in the tile table lies within
\* 0 <= x < map_cols and 0 <= y < map_rows, the dimensions set by that load.
C18_TableWithinDimensions ==
    ld.pc = "idle" =>
        \A p \in DOMAIN map_data :
            0 <= p[1] /\ p[1] < map_cols /\ 0 <= p[2] /\ p[2] < map_rows

\* C19: at every point of a run against an unchanged grid every tile of the cleaned
\* set is inside the dimensions and walkable, and once the start has passed
\* validation the set holds the start tile; so a returned tile is never on a
\* non-walkable or out-of-range cell and a completed run never reports zero tiles,
\* also when the tile table holds walkable entries outside the dimensions.
C19_CleanedTilesOnGrid ==
    \A t \in Threads :
        Cleaning(t) =>
            /\ \A p \in w[t].cleaned_tiles : OnGrid(CurrentGrid, p)
            /\ w[t].pc \in RunningPcs => <<w[t].start_x, w[t].start_y>> \in w[t].cleaned_tiles
            /\ w[t].pc \in ReturnedPcs =>
                  /\ \A p \in w[t].returned[1] : OnGrid(CurrentGrid, p)
                  /\ w[t].returned[2] = "completed" =>
                        <<w[t].start_x, w[t].start_y>> \in w[t].returned[1]
            /\ (w[t].pc = "done" /\ w[t].returned[2] = "completed") =>
                  cleaning_history[Len(cleaning_history)].tiles_cleaned >= 1

\* A run has halted at a unit move onto a position outside the dimensions that the
\* tile table holds as walkable.
C19_Witness ==
    \E t \in Threads :
        /\ Cleaning(t) /\ w[t].pc = "done" /\ ValidStart(t)
        /\ w[t].returned[2] = "error"
        /\ UnitsOf(t)[HaltOf(t)] \in Directions
        /\ LET p == PosAfter(w[t].start_x, w[t].start_y, UnitsOf(t), HaltOf(t))
           IN  /\ p \in DOMAIN map_data /\ map_data[p]
               /\ p \notin w[t].returned[1]

\* The step belongs to thread t's handling of a request of the given kind.
StepOf(t, kind) == w'[t] # w[t] /\ (w[t].op = kind \/ w'[t].op = kind)

\* C20: frame conditions of the three operations. A step of a map upload leaves the
\* ledger and the session-id counter unchanged; a step of a history export leaves
\* grid, ledger and counter unchanged; a step of a cleaning run leaves the grid
\* unchanged, changes the ledger only at its append, by one record added at the
\* end, and changes the counter only at its increment, by one.
C20_FrameConditions ==
    [][/\ ld' # ld => UNCHANGED <<cleaning_history, session_id>>
       /\ \A t \in Threads :
            /\ StepOf(t, "history") => UNCHANGED Globals
            /\ StepOf(t, "clean") =>
                  /\ UNCHANGED Grid
                  /\ \/ cleaning_history' = cleaning_history
                     \/ /\ w[t].pc = "append"
                        /\ Len(cleaning_history') = Len(cleaning_history) + 1
                        /\ IsPrefix(cleaning_history, cleaning_history')
                  /\ \/ session_id' = session_id
                     \/ w[t].pc = "incr_store" /\ session_id' = session_id + 1]_vars

\* An upload is replacing a loaded grid after two runs were logged, and the ledger
\* and the counter are as the runs left them.
C20_Witness ==
    /\ ld.pc = "fill" /\ ld.stores # <<>>
    /\ map_data # EmptyDict
    /\ Len(cleaning_history) = 2 /\ session_id = 3
    /\ cleaning_history[2].actions_count = 2

\* Both runs of SpecTwice have returned, the second with the start and commands of
\* the first, on the grid the first one ran on.
BothReturned ==
    /\ Cleaning(1) /\ w[1].pc = "done"
    /\ Cleaning(2) /\ w[2].pc \in ReturnedPcs
    /\ w[2].start_x = w[1].start_x /\ w[2].start_y = w[1].start_y
    /\ w[2].actions = w[1].actions

\* C13: for every grid, start and command sequence the run with the flag on and the
\* run with the flag off return the same cleaned-tile set and the same status.
C13_PremiumMakesNoDifference ==
    (BothReturned /\ w[1].premium # w[2].premium) =>
        /\ w[1].returned[1] = w[2].returned[1]
        /\ w[1].returned[2] = w[2].returned[2]

\* The two runs differ in the flag and have completed a route that comes back to a
\* tile already cleaned.
C13_Witness ==
    /\ BothReturned /\ w[2].pc = "done"
    /\ w[1].premium /\ ~w[2].premium
    /\ w[1].returned[2] = "completed"
    /\ Len(UnitsOf(1)) >= 2
    /\ Cardinality(w[1].returned[1]) < Len(UnitsOf(1)) + 1

\* C14: two runs in sequence with identical start, commands and flag on an
\* unchanged grid return the same cleaned-tile set and the same status, which is
\* what the reference computes from the grid alone: the first run leaves nothing
\* behind that the second one reads.
C14_SecondRunSameResult ==
    (BothReturned /\ w[1].premium = w[2].premium) =>
        /\ w[2].returned = w[1].returned
        /\ w[2].returned =
              Expected(CurrentGrid, w[2].start_x, w[2].start_y, w[2].actions)

\* The two runs have the same flag and have both cleaned several tiles, the first
\* one being logged before the second.
C14_Witness ==
    /\ BothReturned /\ w[2].pc = "done"
    /\ w[1].premium = w[2].premium
    /\ Cardinality(w[2].returned[1]) >= 2
    /\ Len(cleaning_history) = 2
    /\ cleaning_history[1].tiles_cleaned = cleaning_history[2].tiles_cleaned

=============================================================================
